---- MODULE Spec2Model ----
(***************************************************************************)
(* Model of the cpm configuration core: the Config Store (load/save/get/   *)
(* set by dot-path), the Setting Resolver (resolveNamespaceSetting), the   *)
(* settings edit cycle with provider callbacks, provider add/remove and    *)
(* the cleanup pass of the interactive config menu.                        *)
(*                                                                         *)
(* A JSON value is a tree: a function from paths (sequences of property    *)
(* names, <<>> being the root) to node tags.  An object node carries OBJ,  *)
(* an array node ARR (its elements under the keys "0", "1", ...), a scalar *)
(* node carries the scalar.  JavaScript true/false/null/undefined are the  *)
(* tags JTrue/JFalse/JNull/Undef; every other tag is a JavaScript string.  *)
(***************************************************************************)
EXTENDS Integers, Sequences, FiniteSets, TLC

VARIABLES
    file,       \* parsed content of ~/.cpm-config.json (the persisted document)
    config,     \* the document object held in memory by the running menu
    menu,       \* position of the menu loops (which prompt is pending)
    ret,        \* value returned by the last Config Store / resolver call
    last,       \* the last operation and its arguments (history)
    steps,      \* number of operations performed so far
    backup,     \* content of ~/.cpm-config.json.bak
    pending     \* the config.set calls suspended at `await config.load()`

vars == <<file, config, menu, ret, last, steps, backup, pending>>

\* ---------------------------------------------------------------- JSON trees

OBJ == "{}"
ARR == "[]"
JTrue == "true"
JFalse == "false"
JNull == "null"
Undef == "undefined"
INHERIT == "global"

Scalar(s) == (<<>> :> s)
EmptyObj == Scalar(OBJ)
UndefV == Scalar(Undef)

IsPrefix(p, q) == Len(p) <= Len(q) /\ SubSeq(q, 1, Len(p)) = p

\* the value found at path p of tree t (p must be a node of t)
Sub(t, p) ==
    LET below == {r \in DOMAIN t : IsPrefix(p, r)}
        rel == {SubSeq(r, Len(p) + 1, Len(r)) : r \in below}
    IN  [q \in rel |-> t[p \o q]]

\* t without the node p and everything under it (delete obj[k])
Prune(t, p) == [q \in {r \in DOMAIN t : ~IsPrefix(p, r)} |-> t[q]]

\* t with the value v stored at path p (obj[k] = v)
Graft(t, p, v) ==
    LET base == Prune(t, p)
    IN  [q \in (DOMAIN base) \cup {p \o r : r \in DOMAIN v} |->
            IF IsPrefix(p, q) THEN v[SubSeq(q, Len(p) + 1, Len(q))] ELSE base[q]]

\* Object.keys(obj) for the node at path p
Keys(t, p) == {q[Len(p) + 1] : q \in {r \in DOMAIN t : Len(r) = Len(p) + 1 /\ IsPrefix(p, r)}}

Has(t, p) == p \in DOMAIN t

\* typeof v === "object" (objects, arrays and null)
TypeofObject(tag) == tag \in {OBJ, ARR, JNull}

\* obj && typeof obj === "object"
IsContainer(tag) == tag \in {OBJ, ARR}

\* JavaScript truthiness of the value at a node
Truthy(tag) == tag \notin {JFalse, JNull, Undef, ""}

\* JSON.parse(JSON.stringify(cfg)): properties whose value is undefined are
\* dropped by the serializer, everything else is kept.
Stringify(t) ==
    LET dropped == {p \in DOMAIN t : p # <<>> /\ t[p] = Undef}
    IN  [q \in {r \in DOMAIN t : \A p \in dropped : ~IsPrefix(p, r)} |-> t[q]]

\* ------------------------------------------------------------- Config Store

\* the document config.load() writes when the file is absent
DefaultDoc ==
    (<<>> :> OBJ) @@
    (<<"passcode">> :> JNull) @@
    (<<"global">> :> OBJ) @@
    (<<"global", "github">> :> OBJ) @@
    (<<"global", "github", "token">> :> JNull) @@
    (<<"global", "github", "publish">> :> JTrue) @@
    (<<"global", "github", "releases">> :> JTrue) @@
    (<<"global", "npm">> :> OBJ) @@
    (<<"global", "npm", "token">> :> JNull) @@
    (<<"global", "npm", "publish">> :> JTrue) @@
    (<<"global", "npm", "allowPrivate">> :> JFalse) @@
    (<<"namespaces">> :> OBJ)

\* config.get(key), parts = key.split("."): the loop body ends with
\* `return obj`, so the walk returns after the first segment.
StoreGet(cfg, parts) ==
    IF parts = <<>> THEN cfg
    ELSE LET part == Head(parts)
         IN  IF IsContainer(cfg[<<>>]) /\ Has(cfg, <<part>>)
             THEN Sub(cfg, <<part>>)
             ELSE UndefV

\* the loop of config.set from the node at path at: creates or replaces
\* intermediate levels, `in`/assignment on null throws a TypeError.
RECURSIVE SetWalk(_, _, _, _)
SetWalk(t, at, rest, v) ==
    IF t[at] = JNull THEN [threw |-> TRUE, doc |-> t]
    ELSE IF Len(rest) = 1 THEN [threw |-> FALSE, doc |-> Graft(t, at \o rest, v)]
    ELSE LET nxt == at \o <<Head(rest)>>
             t2 == IF ~Has(t, nxt) \/ ~TypeofObject(t[nxt])
                   THEN Graft(t, nxt, EmptyObj) ELSE t
         IN  SetWalk(t2, nxt, Tail(rest), v)

\* config.set(key, value) up to config.save: the document handed to save
StoreSet(cfg, parts, v) ==
    IF parts = <<>> THEN [threw |-> FALSE, doc |-> cfg]
    ELSE SetWalk(cfg, <<>>, parts, v)

\* a?.[k]
OptGet(v, k) ==
    IF v[<<>>] \in {Undef, JNull} THEN UndefV
    ELSE IF IsContainer(v[<<>>]) /\ Has(v, <<k>>) THEN Sub(v, <<k>>)
    ELSE UndefV

\* the resolver without the `nsVal === null` test
ResolveWithoutNullTest(cfg, ns, provider, key) ==
    IF ns = "" \/ provider = "" \/ key = "" THEN UndefV
    ELSE LET nsVal == OptGet(OptGet(OptGet(OptGet(cfg, "namespaces"), ns), provider), key)
         IN  IF nsVal[<<>>] \in {Undef, INHERIT}
             THEN OptGet(OptGet(OptGet(cfg, "global"), provider), key)
             ELSE nsVal

\* config.resolveNamespaceSetting(cfg, ns, provider, key)
ResolveNamespaceSetting(cfg, ns, provider, key) ==
    IF ns = "" \/ provider = "" \/ key = "" THEN UndefV
    ELSE LET nsVal == OptGet(OptGet(OptGet(OptGet(cfg, "namespaces"), ns), provider), key)
         IN  IF nsVal[<<>>] \in {Undef, JNull, INHERIT}
             THEN OptGet(OptGet(OptGet(cfg, "global"), provider), key)
             ELSE nsVal

\* ------------------------------------------------------- arrays of strings

\* the array stored at path p as a sequence (Array.isArray(x) ? x : [])
ArrayAt(t, p) ==
    IF Has(t, p) /\ t[p] = ARR
    THEN [i \in 1..Cardinality(Keys(t, p)) |-> t[p \o <<ToString(i - 1)>>]]
    ELSE <<>>

\* the tree of the array literal holding the elements of seq
ArrayTree(seq) ==
    [q \in {<<>>} \cup {<<ToString(i - 1)>> : i \in 1..Len(seq)} |->
        IF q = <<>> THEN ARR ELSE seq[CHOOSE i \in 1..Len(seq) : ToString(i - 1) = q[1]]]

\* arr.filter(keep)
RECURSIVE Filter(_, _)
Filter(seq, keep) ==
    IF seq = <<>> THEN <<>>
    ELSE IF Head(seq) \in keep THEN <<Head(seq)>> \o Filter(Tail(seq), keep)
    ELSE Filter(Tail(seq), keep)

Range(seq) == {seq[i] : i \in 1..Len(seq)}

\* ------------------------------------------------------ provider identifiers

\* the identifiers the model types at prompts or finds in a document
BuiltinGithub == "@builtin/cpm-github"
CustomX == "cpm-x"
Ids == {BuiltinGithub, CustomX, "bad name", "xcpm-y", "legacy"}

\* id.includes("cpm-")
IncludesCpm(id) == id \in {BuiltinGithub, CustomX, "xcpm-y"}

\* the identifiers of Ids of the form cpm-<name> or @scope/cpm-<name>
PatternIds == {BuiltinGithub, CustomX}

\* the pattern without its anchors
MatchesPatternUnanchored(id) == IncludesCpm(id)

\* /^cpm-[\w-]+$|^@[^/]+\/cpm-[\w-]+$/.test(id)
MatchesPattern(id) == id \in PatternIds

\* ------------------------------------------------------------------ cleanup

\* Object.keys(x).length === 0 for the value at node p
NoKeys(t, p) == Keys(t, p) = {} /\ t[p] \in {OBJ, ARR, JTrue, JFalse, ""}

\* the same loop with the emptiness of the map tested before the deletions
CleanProviderMapTestedFirst(t, pp) ==
    IF ~Has(t, pp) \/ ~Truthy(t[pp]) THEN t
    ELSE LET doomed == {k \in Keys(t, pp) : ~IncludesCpm(k) \/ NoKeys(t, pp \o <<k>>)}
             t1 == [q \in {r \in DOMAIN t : \A k \in doomed : ~IsPrefix(pp \o <<k>>, r)} |-> t[q]]
         IN  IF Keys(t, pp) = {} THEN Prune(t1, pp) ELSE t1

\* the loop over the keys of one `providers` map at path pp followed by the
\* removal of the map when it is left empty
CleanProviderMap(t, pp) ==
    IF ~Has(t, pp) \/ ~Truthy(t[pp]) THEN t
    ELSE LET doomed == {k \in Keys(t, pp) : ~IncludesCpm(k) \/ NoKeys(t, pp \o <<k>>)}
             t1 == [q \in {r \in DOMAIN t : \A k \in doomed : ~IsPrefix(pp \o <<k>>, r)} |-> t[q]]
         IN  IF Keys(t1, pp) = {} THEN Prune(t1, pp) ELSE t1

\* the loop deleting the empty object-typed members (other than `providers`)
\* of the object at path p
CleanEmptyMembers(t, p) ==
    LET doomed == {k \in Keys(t, p) :
                      k # "providers" /\ TypeofObject(t[p \o <<k>>]) /\ NoKeys(t, p \o <<k>>)}
    IN  [q \in {r \in DOMAIN t : \A k \in doomed : ~IsPrefix(p \o <<k>>, r)} |-> t[q]]

\* the body of the loop over the namespaces, for one namespace
CleanNamespace(t, ns) ==
    CleanEmptyMembers(CleanProviderMap(t, <<"namespaces", ns, "providers">>), <<"namespaces", ns>>)

RECURSIVE CleanNamespaces(_, _)
CleanNamespaces(t, todo) ==
    IF todo = {} THEN t
    ELSE LET ns == CHOOSE n \in todo : TRUE
         IN  CleanNamespaces(CleanNamespace(t, ns), todo \ {ns})

\* cleanup without the final filter
CleanProvidersArrayUnfiltered(t) == t

\* the final filter of config.providers
CleanProvidersArray(t) ==
    IF Has(t, <<"providers">>) /\ t[<<"providers">>] = ARR
    THEN Graft(t, <<"providers">>, ArrayTree(Filter(ArrayAt(t, <<"providers">>), {i \in Ids : IncludesCpm(i)})))
    ELSE t

\* ConfigAPI.cleanup(config)
Cleanup(t) ==
    LET g1 == CleanProviderMap(t, <<"global", "providers">>)
        g2 == CleanEmptyMembers(g1, <<"global">>)
        n1 == IF Has(g2, <<"namespaces">>) /\ Truthy(g2[<<"namespaces">>])
              THEN CleanNamespaces(g2, Keys(g2, <<"namespaces">>)) ELSE g2
    IN  CleanProvidersArray(n1)

\* ------------------------------------------------- Config Store as a service

\* the state of a file that does not exist (fs.existsSync is false)
NoFile == Scalar("<no file>")

NoMenu == [at |-> "none", scope |-> "", provider |-> "", from |-> ""]

NoOp ==
    [op |-> "none", path |-> <<>>, val |-> UndefV, threw |-> FALSE,
     afterSet |-> FALSE, ns |-> "", provider |-> "", key |-> "",
     arg |-> "", cb |-> "", ok |-> FALSE, afterAdd |-> FALSE, pre |-> EmptyObj,
     installed |-> FALSE, hist |-> <<>>, stamp |-> 0,
     method |-> "", calls |-> <<>>, fault |-> "none", exit |-> -1,
     asked |-> FALSE, bak |-> EmptyObj, path2 |-> <<>>, val2 |-> UndefV]

\* arguments of the set calls explored: (path after split("."), value)
SetArgs ==
    {<<<<"namespaces", "@foo", "github", "publish">>, Scalar(v)>> :
        v \in {JTrue, JFalse, JNull, INHERIT, Undef}}
    \cup {<<<<"global", "github", "publish">>, Scalar(v)>> : v \in {JTrue, JFalse}}
    \cup {<<<<"global", "github", "token">>, Scalar("abc123")>>,
          <<<<"namespaces", "@foo", "github", "token">>, Scalar(JNull)>>,
          <<<<"passcode">>, Scalar("1234")>>,
          <<<<"passcode", "x">>, Scalar(JTrue)>>}

GetPaths ==
    {a[1] : a \in SetArgs} \cup
    {<<"global", "github", "nonexistent">>, <<"global", "nowhere", "token">>, <<"global">>, <<"nonexistent">>}

Namespaces == {"@foo"}
StoreProviders == {"github"}
BooleanKeys == {"publish"}
SecretKeys == {"token"}

\* await config.set(key, value): load, walk, assign, save
ConfigSet(parts, v) ==
    /\ LET r == StoreSet(file, parts, v)
       IN  /\ file' = IF r.threw THEN file ELSE Stringify(r.doc)
           /\ last' = [NoOp EXCEPT !.op = "set", !.path = parts, !.val = v, !.threw = r.threw]
    /\ ret' = UndefV
    /\ UNCHANGED <<config, menu, steps>>
    /\ UNCHANGED backup
    /\ UNCHANGED pending

\* await config.get(key): load, walk
ConfigGet(parts) ==
    /\ ret' = StoreGet(file, parts)
    /\ last' = [NoOp EXCEPT !.op = "get", !.path = parts, !.val = last.val,
                            !.afterSet = (last.op = "set" /\ ~last.threw /\ last.path = parts)]
    /\ UNCHANGED <<file, config, menu, steps>>
    /\ UNCHANGED backup
    /\ UNCHANGED pending

\* config.resolveNamespaceSetting(await config.load(), ns, provider, key)
ConfigResolve(ns, provider, key) ==
    /\ ret' = ResolveNamespaceSetting(file, ns, provider, key)
    /\ last' = [NoOp EXCEPT !.op = "resolve", !.ns = ns, !.provider = provider, !.key = key]
    /\ UNCHANGED <<file, config, menu, steps>>
    /\ UNCHANGED backup
    /\ UNCHANGED pending

StoreInit ==
    /\ file = DefaultDoc
    /\ config = DefaultDoc
    /\ menu = NoMenu
    /\ ret = UndefV
    /\ last = NoOp
    /\ steps = 0
    /\ backup = NoFile
    /\ pending = <<>>

StoreNext ==
    \/ \E a \in SetArgs : ConfigSet(a[1], a[2])
    \/ \E p \in GetPaths : ConfigGet(p)
    \/ \E ns \in Namespaces, p \in StoreProviders, k \in BooleanKeys \cup SecretKeys : ConfigResolve(ns, p, k)

SpecStore == StoreInit /\ [][StoreNext]_vars

\* the value the document stores for (namespace, provider, key) / (provider, key),
\* read node by node
StoredAt(cfg, path) == IF Has(cfg, path) THEN Sub(cfg, path) ELSE UndefV

\* C1: in namespace scope a boolean key whose stored namespace value is absent,
\* null or the inherit sentinel resolves to the stored global value; any other
\* stored namespace value is returned unchanged.
C1_FallbackCorrect ==
    (last.op = "resolve" /\ last.key \in BooleanKeys) =>
        LET nsStored == StoredAt(file, <<"namespaces", last.ns, last.provider, last.key>>)
            glStored == StoredAt(file, <<"global", last.provider, last.key>>)
        IN  IF nsStored[<<>>] \in {Undef, JNull, INHERIT}
            THEN ret = glStored
            ELSE ret = nsStored

C1_Witness ==
    /\ last.op = "resolve" /\ last.key \in BooleanKeys
    /\ StoredAt(file, <<"namespaces", last.ns, last.provider, last.key>>) = Scalar(INHERIT)
    /\ StoredAt(file, <<"global", last.provider, last.key>>) = Scalar(JFalse)
    /\ ret = Scalar(JFalse)

\* C2: resolving a secret key in namespace scope returns the namespace value,
\* never the global token in its place, also when the namespace token is null
\* or absent.
C2_SecretNotInherited ==
    (last.op = "resolve" /\ last.key \in SecretKeys) =>
        LET nsStored == StoredAt(file, <<"namespaces", last.ns, last.provider, last.key>>)
            glStored == StoredAt(file, <<"global", last.provider, last.key>>)
        IN  (nsStored[<<>>] \in {Undef, JNull} /\ glStored[<<>>] \notin {Undef, JNull, OBJ, ARR})
                => (ret = nsStored /\ ret # glStored)

\* C3: set(p, v) followed by get(p) returns v, and get of a path that does not
\* exist in the document returns undefined.
C3_RoundTrip ==
    (last.op = "get") =>
        /\ last.afterSet => ret = last.val
        /\ ~Has(file, last.path) => ret = UndefV

\* the proper prefixes of a path that hold a value that is not a mapping
NonMappingPrefixes(f, parts) ==
    {k \in 1..(Len(parts) - 1) :
        Has(f, SubSeq(parts, 1, k)) /\ f[SubSeq(parts, 1, k)] \notin {OBJ, ARR}}

\* C26: a set on a path with an intermediate segment that holds a string, a
\* boolean or null does not throw: the segment becomes an empty mapping, the
\* leaf is assigned and the document is saved.
C26_SetThroughNonMapping ==
    [][(last'.op = "set" /\ NonMappingPrefixes(file, last'.path) # {}) =>
          /\ ~last'.threw
          /\ StoredAt(file', last'.path) = last'.val
          /\ \A k \in NonMappingPrefixes(file, last'.path) : file'[SubSeq(last'.path, 1, k)] = OBJ]_vars

\* ------------------------------------------------------ provider modules

\* the provider modules import() can load in the modelled installation
Modules == {BuiltinGithub, CustomX}

\* the items of the descriptor a module's menu function returns; cb tells
\* whether the item carries a callback.  The built-in module is the one of
\* packages/cpm-github; cpm-x stands for a third-party module whose items
\* carry callbacks, one of them with a type other than "boolean".
Descriptor(id) ==
    IF id = BuiltinGithub
    THEN {[key |-> "token", type |-> Undef, cb |-> FALSE],
          [key |-> "publish", type |-> "boolean", cb |-> FALSE],
          [key |-> "releases", type |-> "boolean", cb |-> FALSE]}
    ELSE {[key |-> "hook", type |-> "boolean", cb |-> TRUE],
          [key |-> "mode", type |-> "choice", cb |-> TRUE]}

\* typeof module.menu === "function": cpm-x exports menu by name, the built-in
\* packages export it on their default export only
HasNamedMenu(id) == id = CustomX

\* what a provider callback can answer: true, a string, another value, a throw
CallbackResults == {"true", "string", "other", "throws"}

\* the folders packages/cpm-* with a package.json, without the prefix
PrebuiltProviders == {"github"}

PrebuiltId(prov) == CASE prov = "github" -> BuiltinGithub

\* the loop left at the first module that fails to load
GetProvidersStopAtFault(t) ==
    LET list == ArrayAt(t, <<"providers">>)
        bad == {i \in 1..Len(list) : list[i] \notin Modules}
        n == IF bad = {} THEN Len(list) ELSE (CHOOSE i \in bad : \A j \in bad : i <= j) - 1
    IN  SubSeq(list, 1, n)

\* configUtil.getProviders(config): the configured identifiers whose module
\* loads, in the order of config.providers
GetProviders(t) == Filter(ArrayAt(t, <<"providers">>), Modules)

\* ---------------------------------------------------------- config menu

\* the errors that can leave the menu uncaught: what a force-closed prompt
\* rejects with (an ExitPromptError, or for older prompt libraries a plain
\* Error with the force-close message) and the TypeError of a failed
\* property read
ExitPromptError == [isError |-> TRUE, name |-> "ExitPromptError", forceClosed |-> TRUE]
ForceCloseError == [isError |-> TRUE, name |-> "Error", forceClosed |-> TRUE]
TypeError == [isError |-> TRUE, name |-> "TypeError", forceClosed |-> FALSE]
InterruptErrors == {ExitPromptError, ForceCloseError}

\* the two entry points of the program: the current one registers the
\* uncaughtException handler, the earlier one wraps main() in runMain
Entries == {"uncaughtException", "runMain"}

\* the handler answering every error with a clean exit
UncaughtExceptionAlwaysClean(error) == 0

\* process.on("uncaughtException", ...): the exit code of the process.  The
\* rejection of the un-awaited ConfigAPI.run() is raised as an uncaught
\* exception; a throw from inside the handler ends the process with code 7.
UncaughtException(error) ==
    IF (error.isError /\ error.name = "ExitPromptError") \/ error.forceClosed
    THEN 0
    ELSE 7

\* the catch of runMain: exit 0 for a force-closed prompt, otherwise the
\* error is thrown again and the rejection of runMain() ends the process
\* with code 1
RunMain(error) ==
    IF error.isError /\ (error.name = "ExitPromptError" \/ error.forceClosed)
    THEN 0
    ELSE 1

\* the exit code when error leaves the menu under the entry point entry
ExitCode(entry, error) ==
    IF entry = "uncaughtException" THEN UncaughtException(error) ELSE RunMain(error)

MaxSteps == 8

ScopePath(scope) == IF scope = "global" THEN <<"global">> ELSE <<"namespaces", scope>>

\* if (!obj[k]) obj[k] = {}
EnsureObj(t, p) == IF Has(t, p) /\ Truthy(t[p]) THEN t ELSE Graft(t, p, EmptyObj)

\* if (!config.providers) config.providers = []
EnsureProviders(t) ==
    IF Has(t, <<"providers">>) /\ Truthy(t[<<"providers">>]) THEN t
    ELSE Graft(t, <<"providers">>, ArrayTree(<<>>))

RECURSIVE SeedNamespaces(_, _, _)
SeedNamespaces(t, todo, id) ==
    IF todo = {} THEN t
    ELSE LET ns == CHOOSE n \in todo : TRUE
             t1 == EnsureObj(t, <<"namespaces", ns, "providers">>)
             t2 == EnsureObj(t1, <<"namespaces", ns, "providers", id>>)
         IN  SeedNamespaces(t2, todo \ {ns}, id)

\* config.providers.push(id) and the seeding of the settings objects
PushAndSeed(t, id) ==
    LET t1 == Graft(t, <<"providers">>, ArrayTree(Append(ArrayAt(t, <<"providers">>), id)))
        t2 == EnsureObj(t1, <<"global", "providers">>)
        t3 == EnsureObj(t2, <<"global", "providers", id>>)
    IN  SeedNamespaces(t3, Keys(t3, <<"namespaces">>), id)

\* the three-state cycle in every scope
NextValueInEveryScope(cur, isNamespace) ==
    IF cur = JTrue THEN JFalse ELSE IF cur = JFalse THEN INHERIT ELSE JTrue

\* the cycle without the step to the inherit sentinel
NextValueTwoState(cur, isNamespace) == IF cur = JTrue THEN JFalse ELSE JTrue

\* one pass of the edit cycle of a non-token setting
NextValue(cur, isNamespace) ==
    IF isNamespace
    THEN IF cur = JTrue THEN JFalse ELSE IF cur = JFalse THEN INHERIT ELSE JTrue
    ELSE IF cur = JTrue THEN JFalse ELSE JTrue

\* the saveConfig closure handed to customSettings: cleanup, then save
SaveConfig(t) == Cleanup(t)

At(a) == [at |-> a, scope |-> "", provider |-> "", from |-> ""]

Step == steps < MaxSteps /\ steps' = steps + 1

\* the history record of the operation op performed by the current step
Rec(op) == [NoOp EXCEPT !.op = op, !.stamp = steps + 1]

\* select() of ConfigAPI.run, one action per section
MainExit ==
    /\ menu.at = "main" /\ Step
    /\ menu' = At("exited")
    /\ UNCHANGED <<file, config, ret, last>>
    /\ UNCHANGED backup
    /\ UNCHANGED pending

MainProviders ==
    /\ menu.at = "main" /\ Step
    /\ menu' = At("providers")
    /\ UNCHANGED <<file, config, ret, last>>
    /\ UNCHANGED backup
    /\ UNCHANGED pending

MainNamespaces ==
    /\ menu.at = "main" /\ Step
    /\ menu' = At("namespaces")
    /\ UNCHANGED <<file, config, ret, last>>
    /\ UNCHANGED backup
    /\ UNCHANGED pending

\* entry of ConfigAPI.menu.provider(config, scope, label) from the menu `from`
EnterProvider(scope, from) ==
    IF ~Has(config, ScopePath(scope))
    THEN /\ menu' = At("crashed")
         /\ UNCHANGED config
    ELSE /\ config' = EnsureObj(config, ScopePath(scope) \o <<"providers">>)
         /\ menu' = [at |-> "provider", scope |-> scope, provider |-> "", from |-> from]

\* the history record of a call of menu.provider for scope: the TypeError of
\* the entry, when it is raised, is not caught anywhere in the menu
EnterRec(scope) ==
    IF ~Has(config, ScopePath(scope))
    THEN [Rec("enter") EXCEPT !.arg = scope, !.fault = TypeError.name,
                              !.exit = ExitCode("uncaughtException", TypeError)]
    ELSE [Rec("enter") EXCEPT !.arg = scope]

MainGlobal ==
    /\ menu.at = "main" /\ Step
    /\ IF Len(ArrayAt(config, <<"providers">>)) > 0
       THEN EnterProvider("global", "main")
       ELSE UNCHANGED <<config, menu>>
    /\ last' = [Rec("enter") EXCEPT !.arg = "global"]
    /\ UNCHANGED <<file, ret>>
    /\ UNCHANGED backup
    /\ UNCHANGED pending

\* ---- Providers menu (ConfigAPI.menu.providers)

CustomInputs == {"", CustomX, "bad name", "xcpm-y"}

ProvBack ==
    /\ menu.at = "providers" /\ Step
    /\ menu' = At("main")
    /\ UNCHANGED <<file, config, ret, last>>
    /\ UNCHANGED backup
    /\ UNCHANGED pending

\* "Remove Provider" is offered when config.providers is not empty
ProvRemoveMenu ==
    /\ menu.at = "providers" /\ Step
    /\ Len(ArrayAt(config, <<"providers">>)) > 0
    /\ menu' = At("remove")
    /\ UNCHANGED <<file, config, ret, last>>
    /\ UNCHANGED backup
    /\ UNCHANGED pending

\* "Add Prebuilt: prov", offered for the prebuilt folders not yet configured
ProvAddPrebuilt(prov) ==
    /\ menu.at = "providers" /\ Step
    /\ PrebuiltId(prov) \notin Range(ArrayAt(config, <<"providers">>))
    /\ LET id == PrebuiltId(prov)
           added == Cleanup(PushAndSeed(EnsureProviders(config), id))
       IN  /\ config' = added
           /\ file' = Stringify(added)
           /\ last' = [Rec("addPrebuilt") EXCEPT !.arg = id, !.cb = "added",
                                   !.ok = TRUE, !.pre = config]
    /\ UNCHANGED <<menu, ret>>
    /\ UNCHANGED backup
    /\ UNCHANGED pending

\* the branch without the test of the answer of npmUtil.install
AddCustomIgnoringInstall(cfg, name, installOk) ==
    IF name = ""
    THEN [doc |-> cfg, installed |-> FALSE, saved |-> FALSE, outcome |-> "blank"]
    ELSE IF ~MatchesPattern(name)
    THEN [doc |-> cfg, installed |-> FALSE, saved |-> FALSE, outcome |-> "invalid"]
    ELSE IF name \in Range(ArrayAt(EnsureProviders(cfg), <<"providers">>))
    THEN [doc |-> EnsureProviders(cfg), installed |-> FALSE, saved |-> FALSE, outcome |-> "present"]
    ELSE [doc |-> Cleanup(PushAndSeed(EnsureProviders(cfg), name)),
          installed |-> TRUE, saved |-> TRUE, outcome |-> "added"]

\* the branch without the test of config.providers.includes(newProvider)
AddCustomWithoutPresentTest(cfg, name, installOk) ==
    IF name = ""
    THEN [doc |-> cfg, installed |-> FALSE, saved |-> FALSE, outcome |-> "blank"]
    ELSE IF ~MatchesPattern(name)
    THEN [doc |-> cfg, installed |-> FALSE, saved |-> FALSE, outcome |-> "invalid"]
    ELSE IF ~installOk
    THEN [doc |-> EnsureProviders(cfg), installed |-> TRUE, saved |-> FALSE, outcome |-> "installFailed"]
    ELSE [doc |-> Cleanup(PushAndSeed(EnsureProviders(cfg), name)),
          installed |-> TRUE, saved |-> TRUE, outcome |-> "added"]

\* the "add-custom" branch on the document cfg: name is what the input
\* prompt returns, installOk what npmUtil.install answers when it is called.
\* Gives the document left in memory, whether install was called, whether
\* cleanup and save ran, and the message printed.
AddCustom(cfg, name, installOk) ==
    IF name = ""
    THEN [doc |-> cfg, installed |-> FALSE, saved |-> FALSE, outcome |-> "blank"]
    ELSE IF ~MatchesPattern(name)
    THEN [doc |-> cfg, installed |-> FALSE, saved |-> FALSE, outcome |-> "invalid"]
    ELSE IF name \in Range(ArrayAt(EnsureProviders(cfg), <<"providers">>))
    THEN [doc |-> EnsureProviders(cfg), installed |-> FALSE, saved |-> FALSE, outcome |-> "present"]
    ELSE IF ~installOk
    THEN [doc |-> EnsureProviders(cfg), installed |-> TRUE, saved |-> FALSE, outcome |-> "installFailed"]
    ELSE [doc |-> Cleanup(PushAndSeed(EnsureProviders(cfg), name)),
          installed |-> TRUE, saved |-> TRUE, outcome |-> "added"]

\* "Add Custom Provider" is selected in the Providers menu
ProvAddCustom(name, installOk) ==
    /\ menu.at = "providers" /\ Step
    /\ LET r == AddCustom(config, name, installOk)
       IN  /\ config' = r.doc
           /\ file' = IF r.saved THEN Stringify(r.doc) ELSE file
           /\ last' = [Rec("addCustom") EXCEPT !.arg = name, !.ok = installOk, !.cb = r.outcome,
                                               !.installed = r.installed, !.pre = config]
    /\ UNCHANGED <<menu, ret>>
    /\ UNCHANGED backup
    /\ UNCHANGED pending

\* a loaded provider is selected: this.provider(config, provider, label)
ProvSelect(id) ==
    /\ menu.at = "providers" /\ Step
    /\ id \in Range(GetProviders(config))
    /\ EnterProvider(id, "providers")
    /\ last' = EnterRec(id)
    /\ UNCHANGED <<file, ret>>
    /\ UNCHANGED backup
    /\ UNCHANGED pending

\* ---- Remove Provider menu (ConfigAPI.menu.removeProvider)

RemoveBack ==
    /\ menu.at = "remove" /\ Step
    /\ menu' = At("providers")
    /\ UNCHANGED <<file, config, ret, last>>
    /\ UNCHANGED backup
    /\ UNCHANGED pending

RECURSIVE DeleteFromNamespaces(_, _, _)

\* the removal without the loop over the namespaces
DeleteFromNamespacesSkipped(t, todo, id) == t

\* for (const ns of Object.keys(config.namespaces)) delete ...providers[id]
DeleteFromNamespaces(t, todo, id) ==
    IF todo = {} THEN t
    ELSE LET ns == CHOOSE n \in todo : TRUE
             pp == <<"namespaces", ns, "providers">>
             t1 == IF Has(t, pp) /\ Truthy(t[pp]) THEN Prune(t, pp \o <<id>>) ELSE t
         IN  DeleteFromNamespaces(t1, todo \ {ns}, id)

\* the removal with the filter of config.providers inverted
RemoveFromInverted(t, id) ==
    LET t1 == Graft(t, <<"providers">>, ArrayTree(Filter(ArrayAt(t, <<"providers">>), {id})))
        gp == <<"global", "providers">>
        t2 == IF Has(t1, <<"global">>) /\ Truthy(t1[<<"global">>]) /\ Has(t1, gp) /\ Truthy(t1[gp])
              THEN Prune(t1, gp \o <<id>>) ELSE t1
    IN  DeleteFromNamespaces(t2, Keys(t2, <<"namespaces">>), id)

\* the body of `if (confirmRemove)` up to the save
RemoveFrom(t, id) ==
    LET t1 == Graft(t, <<"providers">>, ArrayTree(Filter(ArrayAt(t, <<"providers">>), Ids \ {id})))
        gp == <<"global", "providers">>
        t2 == IF Has(t1, <<"global">>) /\ Truthy(t1[<<"global">>]) /\ Has(t1, gp) /\ Truthy(t1[gp])
              THEN Prune(t1, gp \o <<id>>) ELSE t1
    IN  DeleteFromNamespaces(t2, Keys(t2, <<"namespaces">>), id)

\* a provider is picked and the confirm prompt is answered
RemoveConfirm(id, yes) ==
    /\ menu.at = "remove" /\ Step
    /\ id \in Range(ArrayAt(config, <<"providers">>))
    /\ IF yes
       THEN LET removed == RemoveFrom(config, id)
            IN  /\ config' = removed
                /\ file' = Stringify(removed)
                /\ menu' = IF Len(ArrayAt(removed, <<"providers">>)) = 0 THEN At("providers") ELSE menu
       ELSE UNCHANGED <<config, file, menu>>
    /\ last' = [Rec("remove") EXCEPT !.arg = id, !.ok = yes,
                            !.afterAdd = (last.op \in {"addCustom", "addPrebuilt"} /\ last.cb = "added"
                                           /\ last.arg = id),
                            !.pre = last.pre]
    /\ UNCHANGED ret
    /\ UNCHANGED backup
    /\ UNCHANGED pending

\* ---- provider selection of one scope (the loop of ConfigAPI.menu.provider)

ProviderBack ==
    /\ menu.at = "provider" /\ Step
    /\ menu' = At(menu.from)
    /\ UNCHANGED <<file, config, ret, last>>
    /\ UNCHANGED backup
    /\ UNCHANGED pending

\* a loaded provider is selected; its settings object is created when missing
\* and customSettings starts on it
ProviderSelect(id) ==
    /\ menu.at = "provider" /\ Step
    /\ id \in Range(GetProviders(config))
    /\ LET pp == ScopePath(menu.scope) \o <<"providers">>
       IN  IF ~Has(config, pp)
           THEN /\ menu' = At("crashed")
                /\ UNCHANGED config
           ELSE /\ config' = EnsureObj(config, pp \o <<id>>)
                /\ menu' = [menu EXCEPT !.at = "settings", !.provider = id]
    /\ last' = IF ~Has(config, ScopePath(menu.scope) \o <<"providers">>)
               THEN [Rec("select") EXCEPT !.arg = id, !.fault = TypeError.name,
                                          !.exit = ExitCode("uncaughtException", TypeError)]
               ELSE [Rec("select") EXCEPT !.arg = id]
    /\ UNCHANGED <<file, ret>>
    /\ UNCHANGED backup
    /\ UNCHANGED pending

\* ---- settings of one provider in one scope (ConfigAPI.menu.customSettings)

SettingsPath == ScopePath(menu.scope) \o <<"providers", menu.provider>>

IsNamespace == menu.scope # "global"

\* settings[key]
Current(key) == StoredAt(config, SettingsPath \o <<key>>)[<<>>]

Items == IF menu.at = "settings" THEN Descriptor(menu.provider) ELSE {}

AllItems == UNION {Descriptor(id) : id \in Modules}

TokenInputs == {Undef, "", "tok"}

SettingsBack ==
    /\ menu.at = "settings" /\ Step
    /\ menu' = [menu EXCEPT !.at = "provider", !.provider = ""]
    /\ UNCHANGED <<file, config, ret, last>>
    /\ UNCHANGED backup
    /\ UNCHANGED pending

\* settings[key] = value; saveConfig()
WriteAndSave(key, value) ==
    LET saved == SaveConfig(Graft(config, SettingsPath \o <<key>>, Scalar(value)))
    IN  /\ config' = saved
        /\ file' = Stringify(saved)

\* the token item: the password prompt answers undefined, "" or a token
EditToken(token) ==
    /\ menu.at = "settings" /\ Step
    /\ \E it \in Items : it.key = "token"
    /\ IF token = Undef THEN UNCHANGED <<config, file>>
       ELSE IF token = "" THEN WriteAndSave("token", JNull)
       ELSE WriteAndSave("token", token)
    /\ last' = [Rec("editToken") EXCEPT !.provider = menu.provider, !.ns = menu.scope,
                            !.key = "token", !.arg = token]
    /\ UNCHANGED <<menu, ret>>
    /\ UNCHANGED backup
    /\ UNCHANGED pending

\* a truthiness test in place of the comparison with true
AcceptedIfTruthy(cbResult) == cbResult \in {"true", "string"}

\* cbResult === true
Accepted(cbResult) == cbResult = "true"

\* the values the setting (ns, provider, key) held before each of the last
\* (at most three) writes of the edit cycle made to it in a row
History(key, cur) ==
    LET same == last.op \in {"editBoolean", "editFallback"} /\ last.ns = menu.scope
                /\ last.provider = menu.provider /\ last.key = key
        h == IF same THEN last.hist ELSE <<>>
    IN  IF Len(h) = 3 THEN Tail(h) \o <<cur>> ELSE h \o <<cur>>

\* an item of type "boolean": the cycle, then the callback when there is one
\* (cbResult is what the callback answers; "none" when the item has none)
EditBoolean(it, cbResult) ==
    /\ menu.at = "settings" /\ Step
    /\ it \in Items /\ it.key # "token" /\ it.type = "boolean"
    /\ cbResult \in (IF it.cb THEN CallbackResults ELSE {"none"})
    /\ LET cur == Current(it.key)
           next == NextValue(cur, IsNamespace)
           write == ~it.cb \/ (cbResult # "throws" /\ Accepted(cbResult))
       IN  /\ IF write THEN WriteAndSave(it.key, next) ELSE UNCHANGED <<config, file>>
           /\ last' = [Rec("editBoolean") EXCEPT !.provider = menu.provider, !.ns = menu.scope,
                                   !.key = it.key, !.arg = next, !.cb = cbResult,
                                   !.hist = IF write THEN History(it.key, cur) ELSE <<>>]
    /\ UNCHANGED <<menu, ret>>
    /\ UNCHANGED backup
    /\ UNCHANGED pending

\* an item that is neither the token nor of type "boolean": the fallback
\* branch cycles and writes, the callback of the item is not consulted
EditFallback(it) ==
    /\ menu.at = "settings" /\ Step
    /\ it \in Items /\ it.key # "token" /\ it.type # "boolean"
    /\ LET cur == Current(it.key)
           next == NextValue(cur, IsNamespace)
       IN  /\ WriteAndSave(it.key, next)
           /\ last' = [Rec("editFallback") EXCEPT !.provider = menu.provider, !.ns = menu.scope,
                                   !.key = it.key, !.arg = next, !.cb = "none",
                                   !.hist = History(it.key, cur)]
    /\ UNCHANGED <<menu, ret>>
    /\ UNCHANGED backup
    /\ UNCHANGED pending

\* ---- Namespaces menu (ConfigAPI.menu.namespaces)

NamespaceInputs == {"", "@foo"}

NsBack ==
    /\ menu.at = "namespaces" /\ Step
    /\ menu' = At("main")
    /\ UNCHANGED <<file, config, ret, last>>
    /\ UNCHANGED backup
    /\ UNCHANGED pending

NsSelect(ns) ==
    /\ menu.at = "namespaces" /\ Step
    /\ ns \in Keys(config, <<"namespaces">>)
    /\ EnterProvider(ns, "namespaces")
    /\ last' = EnterRec(ns)
    /\ UNCHANGED <<file, ret>>
    /\ UNCHANGED backup
    /\ UNCHANGED pending

\* the settings object seeded for one loaded provider of a new namespace
SeedObject(id) ==
    LET keys == IF HasNamedMenu(id) THEN {it.key : it \in Descriptor(id)} ELSE {}
    IN  [q \in {<<>>} \cup {<<k>> : k \in keys} |->
            IF q = <<>> THEN OBJ ELSE IF q[1] = "token" THEN JNull ELSE INHERIT]

RECURSIVE SeedProviders(_, _, _)
SeedProviders(t, ns, todo) ==
    IF todo = {} THEN t
    ELSE LET id == CHOOSE i \in todo : TRUE
         IN  SeedProviders(Graft(t, <<"namespaces", ns, "providers", id>>, SeedObject(id)), ns, todo \ {id})

\* "Add Namespace": the name typed at the input prompt
NsAdd(ns) ==
    /\ menu.at = "namespaces" /\ Step
    /\ IF ns = ""
       THEN UNCHANGED <<config, file>>
       ELSE LET fresh == Graft(config, <<"namespaces", ns>>, (<<>> :> OBJ) @@ (<<"providers">> :> OBJ))
                seeded == SeedProviders(fresh, ns, Range(GetProviders(config)))
                saved == Cleanup(seeded)
            IN  /\ config' = saved
                /\ file' = Stringify(saved)
    /\ last' = [Rec("addNamespace") EXCEPT !.arg = ns, !.pre = config]
    /\ UNCHANGED <<menu, ret>>
    /\ UNCHANGED backup
    /\ UNCHANGED pending

\* ---- Passcode menu (ConfigAPI.menu.passcode)

\* what the password prompt returns
PassInputs == {Undef, "", "1234", "4321"}

PasscodeActions == {"set", "change", "clear"}

\* hasPasscode = !!config.passcode
HasPasscode(cfg) == Truthy(StoredAt(cfg, <<"passcode">>)[<<>>])

\* the choices of the menu besides Back
PasscodeChoices(cfg) == IF HasPasscode(cfg) THEN {"change", "clear"} ELSE {"set"}

\* oldPass === undefined || oldPass === ""
Blank(pass) == pass \in {Undef, ""}

\* the menu with the branches of an earlier revision: Clear Passcode asks
\* for nothing
PasscodeMenuClearUnguarded(cfg, action, oldPass, newPass) ==
    CASE action = "set" ->
           IF Blank(newPass) THEN [doc |-> cfg, saved |-> FALSE]
           ELSE [doc |-> Graft(cfg, <<"passcode">>, Scalar(newPass)), saved |-> TRUE]
      [] action = "change" ->
           IF Blank(oldPass) \/ Scalar(oldPass) # StoredAt(cfg, <<"passcode">>) \/ Blank(newPass)
           THEN [doc |-> cfg, saved |-> FALSE]
           ELSE [doc |-> Graft(cfg, <<"passcode">>, Scalar(newPass)), saved |-> TRUE]
      [] action = "clear" ->
           [doc |-> Graft(cfg, <<"passcode">>, Scalar(JNull)), saved |-> TRUE]

\* one turn of the loop of the menu for the selected action: oldPass and
\* newPass are what the password prompts return when they are asked. Gives
\* the document left in memory and whether configUtil.save ran.
PasscodeMenu(cfg, action, oldPass, newPass) ==
    CASE action = "set" ->
           IF Blank(newPass) THEN [doc |-> cfg, saved |-> FALSE]
           ELSE [doc |-> Graft(cfg, <<"passcode">>, Scalar(newPass)), saved |-> TRUE]
      [] action = "change" ->
           IF Blank(oldPass) THEN [doc |-> cfg, saved |-> FALSE]
           ELSE IF Scalar(oldPass) # StoredAt(cfg, <<"passcode">>)
           THEN [doc |-> cfg, saved |-> FALSE]
           ELSE IF Blank(newPass) THEN [doc |-> cfg, saved |-> FALSE]
           ELSE [doc |-> Graft(cfg, <<"passcode">>, Scalar(newPass)), saved |-> TRUE]
      [] action = "clear" ->
           IF Blank(oldPass) THEN [doc |-> cfg, saved |-> FALSE]
           ELSE IF Scalar(oldPass) # StoredAt(cfg, <<"passcode">>)
           THEN [doc |-> cfg, saved |-> FALSE]
           ELSE [doc |-> Graft(cfg, <<"passcode">>, Scalar(JNull)), saved |-> TRUE]

\* "Passcode" is selected in the main menu
MainPasscode ==
    /\ menu.at = "main" /\ Step
    /\ menu' = At("passcode")
    /\ UNCHANGED <<file, config, ret, last>>
    /\ UNCHANGED backup
    /\ UNCHANGED pending

PasscodeBack ==
    /\ menu.at = "passcode" /\ Step
    /\ menu' = At("main")
    /\ UNCHANGED <<file, config, ret, last>>
    /\ UNCHANGED backup
    /\ UNCHANGED pending

\* Set, Change or Clear Passcode is selected and its prompts are answered
PasscodeEdit(action, oldPass, newPass) ==
    /\ menu.at = "passcode" /\ Step
    /\ action \in PasscodeChoices(config)
    /\ LET r == PasscodeMenu(config, action, oldPass, newPass)
       IN  /\ config' = r.doc
           /\ file' = IF r.saved THEN Stringify(r.doc) ELSE file
           /\ last' = [Rec("passcode") EXCEPT !.method = action, !.arg = oldPass, !.key = newPass,
                                              !.ok = r.saved, !.pre = config, !.bak = file]
    /\ UNCHANGED <<menu, ret>>
    /\ UNCHANGED backup
    /\ UNCHANGED pending

\* ---- a prompt is force-closed (Ctrl+C)

Prompts == {"main", "providers", "remove", "provider", "settings", "namespaces", "passcode"}

\* the pending prompt rejects with error; no menu function catches it, so it
\* leaves ConfigAPI.run and reaches the handler of the entry point
Interrupt(error, entry) ==
    /\ menu.at \in Prompts /\ Step
    /\ menu' = At("terminated")
    /\ last' = [Rec("interrupt") EXCEPT !.arg = menu.at, !.fault = error.name, !.method = entry,
                                        !.exit = ExitCode(entry, error)]
    /\ UNCHANGED <<file, config, ret, backup>>
    /\ UNCHANGED pending

\* ---- the menu session

WithGithub ==
    Graft(DefaultDoc, <<"providers">>, ArrayTree(<<BuiltinGithub>>))

WithProviders ==
    Graft(DefaultDoc, <<"providers">>, ArrayTree(<<BuiltinGithub, CustomX>>))

WithNamespace ==
    Graft(WithProviders, <<"namespaces", "@foo">>,
          (<<>> :> OBJ) @@ (<<"providers">> :> OBJ) @@ (<<"providers", CustomX>> :> OBJ) @@
          (<<"providers", CustomX, "hook">> :> INHERIT) @@ (<<"providers", CustomX, "mode">> :> INHERIT))

\* the documents a session starts from: the one of a first run and two that
\* earlier sessions saved (one provider added; two providers and a namespace)
InitDocs == {DefaultDoc, WithGithub, WithNamespace}

Init ==
    /\ config \in InitDocs
    /\ file = config
    /\ menu = At("main")
    /\ ret = UndefV
    /\ last = NoOp
    /\ steps = 0
    /\ backup = NoFile
    /\ pending = <<>>

Next ==
    \/ MainExit
    \/ MainProviders
    \/ MainNamespaces
    \/ MainGlobal
    \/ MainPasscode
    \/ PasscodeBack
    \/ \E action \in PasscodeActions, oldPass \in PassInputs, newPass \in PassInputs :
          PasscodeEdit(action, oldPass, newPass)
    \/ ProvBack
    \/ ProvRemoveMenu
    \/ \E prov \in PrebuiltProviders : ProvAddPrebuilt(prov)
    \/ \E name \in CustomInputs, installOk \in BOOLEAN : ProvAddCustom(name, installOk)
    \/ \E id \in Modules : ProvSelect(id)
    \/ RemoveBack
    \/ \E id \in Ids, yes \in BOOLEAN : RemoveConfirm(id, yes)
    \/ ProviderBack
    \/ \E id \in Modules : ProviderSelect(id)
    \/ SettingsBack
    \/ \E token \in TokenInputs : EditToken(token)
    \/ \E it \in AllItems, cbResult \in CallbackResults \cup {"none"} : EditBoolean(it, cbResult)
    \/ \E it \in AllItems : EditFallback(it)
    \/ NsBack
    \/ \E ns \in Namespaces : NsSelect(ns)
    \/ \E ns \in NamespaceInputs : NsAdd(ns)
    \/ \E error \in InterruptErrors, entry \in Entries : Interrupt(error, entry)

Spec == Init /\ [][Next]_vars

\* ------------------------------------------------ properties of the menu

\* the value now stored in the setting the last edit addressed
SlotValue ==
    StoredAt(config, ScopePath(last.ns) \o <<"providers", last.provider, last.key>>)[<<>>]

IsCycleEdit == last.op \in {"editBoolean", "editFallback"}

\* C4 as stated: from any value a setting can hold, unset included, three
\* passes of the cycle in namespace scope and two in global scope give back the
\* value the setting started from.
C4_CycleTotality ==
    IsCycleEdit =>
        /\ (last.ns # "global" /\ Len(last.hist) = 3) => SlotValue = last.hist[1]
        /\ (last.ns = "global" /\ Len(last.hist) >= 2) => SlotValue = last.hist[Len(last.hist) - 1]

\* C4 (amended): from true, false or the inherit sentinel three passes of the
\* cycle in namespace scope give back the starting value, and from true or
\* false two passes in global scope give back the starting value.
C4_CycleFromSetValue ==
    IsCycleEdit =>
        /\ (last.ns # "global" /\ Len(last.hist) = 3 /\ last.hist[1] \in {JTrue, JFalse, INHERIT})
              => SlotValue = last.hist[1]
        /\ (last.ns = "global" /\ Len(last.hist) >= 2
              /\ last.hist[Len(last.hist) - 1] \in {JTrue, JFalse})
              => SlotValue = last.hist[Len(last.hist) - 1]

C4_Witness ==
    /\ IsCycleEdit /\ last.ns # "global" /\ Len(last.hist) = 3
    /\ last.hist = <<INHERIT, JTrue, JFalse>> /\ SlotValue = INHERIT

\* C5: an edit of a boolean setting that has a callback writes and saves the
\* candidate value when the callback answers true; when it answers a string or
\* anything else, or throws, the document in memory and the file are unchanged
\* and the settings menu is shown again.
C5_CallbackGatedWrite ==
    [][(last'.stamp = steps' /\ last'.op = "editBoolean" /\ last'.cb # "none") =>
          IF last'.cb = "true"
          THEN /\ StoredAt(config', SettingsPath \o <<last'.key>>) = Scalar(last'.arg)
               /\ file' = Stringify(config')
          ELSE config' = config /\ file' = file /\ menu' = menu /\ menu'.at = "settings"]_vars

C5_Witness ==
    last.op = "editBoolean" /\ last.cb = "string" /\ last.stamp = steps /\ menu.at = "settings"

\* the descriptor item of a setting
ItemOf(provider, key) == CHOOSE it \in Descriptor(provider) : it.key = key

\* C6: whenever the settings menu has written a non-secret setting whose
\* descriptor carries a callback, that callback was called with the candidate
\* value first, whatever the type of the item.
C6_CallbackBeforeCommit ==
    (IsCycleEdit /\ ItemOf(last.provider, last.key).cb /\ Len(last.hist) > 0) =>
        last.cb \in CallbackResults

\* the provider keys under global and under each namespace, and the list
ProviderKeys(t, scope) ==
    IF Has(t, ScopePath(scope) \o <<"providers">>) THEN Keys(t, ScopePath(scope) \o <<"providers">>) ELSE {}

SameProviders(a, b) ==
    /\ ArrayAt(a, <<"providers">>) = ArrayAt(b, <<"providers">>)
    /\ Keys(a, <<"namespaces">>) = Keys(b, <<"namespaces">>)
    /\ \A scope \in {"global"} \cup Keys(a, <<"namespaces">>) :
          ProviderKeys(a, scope) = ProviderKeys(b, scope)

RemovedRightAfterAdd == last.op = "remove" /\ last.ok /\ last.afterAdd

\* C8 as stated: for any document, adding an absent valid provider and then
\* removing it leaves the providers list and the provider keys of every scope
\* as they were before the add.
C8_AddRemoveSymmetry ==
    RemovedRightAfterAdd => SameProviders(config, last.pre)

\* C8 (amended): the same for a document that cleanup leaves unchanged and
\* that holds no settings object for the added identifier.
C8_SymmetryOnCleanDocuments ==
    (RemovedRightAfterAdd /\ Cleanup(last.pre) = last.pre
        /\ \A scope \in {"global"} \cup Keys(last.pre, <<"namespaces">>) :
              last.arg \notin ProviderKeys(last.pre, scope))
        => SameProviders(config, last.pre)

C8_Witness ==
    /\ RemovedRightAfterAdd /\ last.stamp = steps /\ Cleanup(last.pre) = last.pre
    /\ last.arg = CustomX /\ ArrayAt(config, <<"providers">>) = <<BuiltinGithub>>

\* C9: a custom add whose name does not match the naming pattern, or is in the
\* providers list already, is reported and changes nothing: the document in
\* memory and the file are unchanged and npm install is not called.
C9_RejectedAddChangesNothing ==
    [][(last'.stamp = steps' /\ last'.op = "addCustom" /\ last'.arg # ""
          /\ (last'.arg \notin PatternIds \/ last'.arg \in Range(ArrayAt(config, <<"providers">>))))
        => /\ config' = config /\ file' = file /\ menu' = menu
           /\ ~last'.installed
           /\ last'.cb \in {"invalid", "present"}]_vars

C9_Witness ==
    last.op = "addCustom" /\ last.arg = "bad name" /\ last.cb = "invalid" /\ last.stamp = steps

AcceptedAdd == last.op \in {"addCustom", "addPrebuilt"} /\ last.cb = "added" /\ last.stamp = steps

\* C11: after an accepted add of id the saved document has id at the end of
\* the providers list and holds a settings object for id under global and
\* under every namespace that existed when the add was made.
C11_SeededAfterAdd ==
    AcceptedAdd =>
        LET list == ArrayAt(file, <<"providers">>)
        IN  /\ Len(list) > 0 /\ list[Len(list)] = last.arg
            /\ Has(file, <<"global", "providers", last.arg>>)
            /\ \A ns \in Keys(last.pre, <<"namespaces">>) :
                  Has(file, <<"namespaces", ns, "providers", last.arg>>)

\* the scopes of a document: global and each namespace
Scopes(t) == {"global"} \cup Keys(t, <<"namespaces">>)

\* the position of the identifier a in the list l
Pos(l, a) == CHOOSE i \in 1..Len(l) : l[i] = a

\* the document without the providers list and without the settings object
\* of id under global and under every namespace
WithoutProvider(t, id) ==
    LET gone == {<<"providers">>, <<"global", "providers", id>>}
                \cup {<<"namespaces", ns, "providers", id>> : ns \in Keys(t, <<"namespaces">>)}
    IN  [q \in {r \in DOMAIN t : \A g \in gone : ~IsPrefix(g, r)} |-> t[q]]

\* C18: a confirmed removal of id takes id out of the providers list, deletes
\* its settings object under global and under every namespace, keeps the order
\* of the other providers and everything else of the document, and saves; a
\* declined one changes nothing.
C18_RemoveFrame ==
    [][(last'.stamp = steps' /\ last'.op = "remove") =>
          LET id == last'.arg
              before == ArrayAt(config, <<"providers">>)
              after == ArrayAt(config', <<"providers">>)
          IN  IF last'.ok
              THEN /\ Range(after) = Range(before) \ {id}
                   /\ \A a, b \in Range(after) :
                         (Pos(after, a) < Pos(after, b)) <=> (Pos(before, a) < Pos(before, b))
                   /\ \A scope \in Scopes(config') : id \notin ProviderKeys(config', scope)
                   /\ WithoutProvider(config', id) = WithoutProvider(config, id)
                   /\ StoredAt(config', <<"passcode">>) = StoredAt(config, <<"passcode">>)
                   /\ Keys(config', <<"namespaces">>) = Keys(config, <<"namespaces">>)
                   /\ file' = Stringify(config')
              ELSE config' = config /\ file' = file]_vars

C18_Witness ==
    /\ last.op = "remove" /\ last.ok /\ last.stamp = steps /\ last.arg = CustomX
    /\ ArrayAt(config, <<"providers">>) = <<BuiltinGithub>>
    /\ "@foo" \in Keys(config, <<"namespaces">>)
    /\ file = Stringify(config)

\* C19: whenever the menu waits at a prompt the file holds the document that
\* is in memory.
C19_SavedAtEveryPrompt ==
    (menu.at \in {"main", "providers", "remove", "provider", "settings", "namespaces"}) =>
        file = Stringify(config)

\* the menu a Back selection of menu m returns to
Parent(m) ==
    CASE m.at \in {"providers", "namespaces", "passcode"} -> "main"
      [] m.at = "remove" -> "providers"
      [] m.at = "provider" -> m.from
      [] m.at = "settings" -> "provider"
      [] OTHER -> "none"

\* the menus that can be entered from menu m
Children(m) ==
    CASE m.at = "main" -> {"providers", "namespaces", "provider", "passcode"}
      [] m.at = "providers" -> {"remove", "provider"}
      [] m.at = "namespaces" -> {"provider"}
      [] m.at = "provider" -> {"settings"}
      [] OTHER -> {}

\* C20: a menu is left only for one of its submenus or for the menu it was
\* entered from, and the menu loop ends only by Exit in the main menu (or by
\* the user force-closing a prompt); no action inside a submenu ends the loop.
C20_MenuNavigation ==
    [][(menu'.at # menu.at) =>
          \/ menu'.at \in Children(menu)
          \/ menu'.at = Parent(menu)
          \/ (menu.at = "main" /\ menu'.at = "exited")
          \/ menu'.at = "terminated"]_vars

\* C21: a prompt force-closed by the user, in whatever menu, ends the
\* process with exit code 0; an error of any other kind that leaves the menu
\* is thrown again and the process ends with a non-zero code.
C21_InterruptIsCleanExit ==
    /\ (last.op = "interrupt") => (last.exit = 0 /\ menu.at = "terminated")
    /\ (menu.at = "crashed") => (last.fault = TypeError.name /\ last.exit > 0)

C21_Witness ==
    /\ last.op = "interrupt" /\ last.arg = "settings" /\ last.fault = "ExitPromptError"
    /\ last.exit = 0 /\ last.stamp = steps

\* the paths of the document t under `global` that hold the inherit sentinel
GlobalSentinels(t) == {q \in DOMAIN t : Len(q) > 0 /\ q[1] = "global" /\ t[q] = INHERIT}

\* C23: no setting stored under global holds the inherit sentinel, in memory
\* or in the file, and an edit that writes the sentinel is made in namespace
\* scope.
C23_GlobalIsConcrete ==
    /\ GlobalSentinels(config) = {} /\ GlobalSentinels(file) = {}
    /\ (IsCycleEdit /\ Len(last.hist) > 0 /\ last.arg = INHERIT) => last.ns # "global"

C23_Witness ==
    /\ last.op = "editBoolean" /\ last.ns = "global" /\ last.stamp = steps
    /\ last.hist = <<JTrue, JFalse>>
    /\ SlotValue = JTrue
    /\ StoredAt(config, <<"namespaces", "@foo", "providers", CustomX, "mode">>) = Scalar(INHERIT)

\* ------------------------------------------- config.set calls in flight

MaxPending == 2
MaxSets == 3

\* the set calls made: three paths of which none is a prefix of another
AsyncArgs ==
    {<<<<"global", "github", "publish">>, Scalar(JFalse)>>,
     <<<<"global", "github", "token">>, Scalar("abc123")>>,
     <<<<"passcode">>, Scalar("1234")>>}

AsyncInit ==
    /\ file = DefaultDoc
    /\ config = DefaultDoc
    /\ menu = NoMenu
    /\ ret = UndefV
    /\ last = NoOp
    /\ steps = 0
    /\ backup = NoFile
    /\ pending = <<>>

\* config.set(key, value) is called: load() reads and parses the file at
\* once, then the call is suspended at its await, behind the calls already
\* suspended
SetStart(parts, v) ==
    /\ steps < MaxSets /\ Len(pending) < MaxPending
    /\ pending' = Append(pending, [path |-> parts, val |-> v, cfg |-> file,
                                    overlaps |-> pending # <<>>,
                                    path2 |-> IF pending # <<>> THEN pending[Len(pending)].path ELSE <<>>,
                                    val2 |-> IF pending # <<>> THEN pending[Len(pending)].val ELSE UndefV])
    /\ steps' = steps + 1
    /\ UNCHANGED <<file, config, menu, ret, last, backup>>

\* the suspended call at the head of the queue resumes: the walk and the
\* assignment on the document it loaded, then config.save
SetResume ==
    /\ pending # <<>>
    /\ LET call == Head(pending)
           r == StoreSet(call.cfg, call.path, call.val)
       IN  /\ file' = IF r.threw THEN file ELSE Stringify(r.doc)
           /\ last' = [NoOp EXCEPT !.op = "setDone", !.path = call.path, !.val = call.val,
                                   !.threw = r.threw, !.afterSet = call.overlaps,
                                   !.path2 = call.path2, !.val2 = call.val2, !.pre = file]
    /\ pending' = Tail(pending)
    /\ UNCHANGED <<config, menu, ret, steps, backup>>

AsyncNext ==
    \/ \E a \in AsyncArgs : SetStart(a[1], a[2])
    \/ SetResume

SpecAsync == AsyncInit /\ [][AsyncNext]_vars

\* C24: when a set call was started while another one on a different path
\* was still suspended, the file holds the values of both once both have
\* completed.
C24_NoLostUpdate ==
    (last.op = "setDone" /\ last.afterSet /\ last.path # last.path2
        /\ ~IsPrefix(last.path, last.path2) /\ ~IsPrefix(last.path2, last.path)) =>
        /\ StoredAt(file, last.path) = last.val
        /\ StoredAt(file, last.path2) = last.val2

\* C27: after the settings menu has committed the value v for (namespace S,
\* provider P, key K), the resolver applied to the saved document returns v
\* when v is concrete and the global value the menu stores for (P, K) when v
\* is the inherit sentinel.
C27_MenuAndResolverAgree ==
    (IsCycleEdit /\ Len(last.hist) > 0 /\ last.stamp = steps /\ last.ns # "global") =>
        ResolveNamespaceSetting(file, last.ns, last.provider, last.key) =
            IF last.arg # INHERIT
            THEN Scalar(last.arg)
            ELSE StoredAt(file, <<"global", "providers", last.provider, last.key>>)

\* the sequence l holds no element twice
NoDuplicates(l) == \A i, j \in 1..Len(l) : l[i] = l[j] => i = j

\* C28: the providers list never holds the same identifier twice, in memory
\* and in the saved file, whatever the menu adds, removes and cleans up.
C28_NoDuplicateProviders ==
    /\ NoDuplicates(ArrayAt(config, <<"providers">>))
    /\ NoDuplicates(ArrayAt(file, <<"providers">>))

\* an identifier already in the list was entered in Add Custom Provider
C28_Witness ==
    /\ last.op = "addCustom" /\ last.stamp = steps /\ last.cb = "present"
    /\ last.arg \in Range(ArrayAt(last.pre, <<"providers">>))
    /\ Len(ArrayAt(config, <<"providers">>)) >= 2

\* the values a stored passcode may have: null or a non-empty string
ValidPasscodes == {Scalar(JNull)} \cup {Scalar(pass) : pass \in PassInputs \ {Undef, ""}}

\* C29: once a passcode is set the passcode menu changes or clears it only
\* after the current passcode was entered correctly; a wrong or blank entry,
\* or a blank new passcode, leaves the stored passcode and the saved file as
\* they were; the stored passcode is always null or a non-empty string.
C29_PasscodeGuard ==
    [][/\ StoredAt(config', <<"passcode">>) \in ValidPasscodes
       /\ StoredAt(file', <<"passcode">>) \in ValidPasscodes
       /\ (last'.op = "passcode" /\ last'.stamp = steps') =>
             LET stored == StoredAt(config, <<"passcode">>)
                 kept == StoredAt(config', <<"passcode">>) = stored /\ file' = file
             IN  /\ (HasPasscode(config) /\ Scalar(last'.arg) # stored) => kept
                 /\ (last'.method \in {"set", "change"} /\ Blank(last'.key)) => kept
                 /\ (HasPasscode(config) /\ StoredAt(config', <<"passcode">>) # stored) =>
                       Scalar(last'.arg) = stored]_vars

\* a wrong passcode was entered in Clear Passcode and the passcode is kept
C29_Witness ==
    /\ last.op = "passcode" /\ last.stamp = steps /\ last.method = "clear"
    /\ HasPasscode(last.pre) /\ ~Blank(last.arg)
    /\ Scalar(last.arg) # StoredAt(last.pre, <<"passcode">>)
    /\ StoredAt(config, <<"passcode">>) = StoredAt(last.pre, <<"passcode">>)
    /\ file = last.bak

\* Add Namespace was answered with a name that is not blank
AddedNamespace == last.op = "addNamespace" /\ last.stamp = steps /\ last.arg # ""

\* C30: Add Namespace with the name of an existing namespace leaves that
\* namespace's settings as they were; with a new name it leaves the other
\* namespaces and the global settings as they were and gives the new
\* namespace, for each loaded provider and each key of its descriptor, null
\* for token and the inherit sentinel for any other key.
C30_AddNamespaceFrame ==
    AddedNamespace =>
        IF last.arg \in Keys(last.pre, <<"namespaces">>)
        THEN StoredAt(config, <<"namespaces", last.arg>>) = StoredAt(last.pre, <<"namespaces", last.arg>>)
        ELSE /\ \A other \in Keys(last.pre, <<"namespaces">>) :
                   StoredAt(config, <<"namespaces", other>>) = StoredAt(last.pre, <<"namespaces", other>>)
             /\ StoredAt(config, <<"global">>) = StoredAt(last.pre, <<"global">>)
             /\ \A id \in Range(GetProviders(last.pre)) : \A it \in Descriptor(id) :
                   StoredAt(config, <<"namespaces", last.arg, "providers", id, it.key>>) =
                       Scalar(IF it.key = "token" THEN JNull ELSE INHERIT)

\* ------------------------------------------------------------ config.load

\* file contents JSON.parse rejects (two different texts)
Unparsable == {Scalar("<not JSON: {oops>"), Scalar("<not JSON: ]>")}

RECURSIVE LoadFile(_, _, _)

\* the catch branch without the rename of the bad file
ResetWithoutBackup(f, b, reset) ==
    IF reset
    THEN [LoadFile(NoFile, b, reset) EXCEPT !.asked = TRUE]
    ELSE [doc |-> UndefV, file |-> f, backup |-> b, exit |-> 1, asked |-> TRUE]

\* the catch branch of load: confirm(), then rename to .bak and load again,
\* or process.exit(1)
ResetOrExit(f, b, reset) ==
    IF reset
    THEN [LoadFile(NoFile, f, reset) EXCEPT !.asked = TRUE]
    ELSE [doc |-> UndefV, file |-> f, backup |-> b, exit |-> 1, asked |-> TRUE]

\* load returning the default document without writing it
LoadFileWithoutWrite(f, b, reset) ==
    IF f = NoFile
    THEN [doc |-> DefaultDoc, file |-> f, backup |-> b, exit |-> -1, asked |-> FALSE]
    ELSE IF f \notin Unparsable
    THEN [doc |-> f, file |-> f, backup |-> b, exit |-> -1, asked |-> FALSE]
    ELSE ResetOrExit(f, b, reset)

\* config.load() with the file f and the backup b on disk; reset is the
\* answer to the confirm prompt when it is asked.  Gives the document
\* returned, the files left on disk and the exit code (-1: still running).
LoadFile(f, b, reset) ==
    IF f = NoFile
    THEN [doc |-> DefaultDoc, file |-> Stringify(DefaultDoc), backup |-> b, exit |-> -1, asked |-> FALSE]
    ELSE IF f \notin Unparsable
    THEN [doc |-> f, file |-> f, backup |-> b, exit |-> -1, asked |-> FALSE]
    ELSE ResetOrExit(f, b, reset)

MaxLoads == 3

\* the documents config.save is called with
SaveDocs == {WithGithub, WithNamespace}

LoadInit ==
    /\ file \in {NoFile, DefaultDoc, WithGithub} \cup Unparsable
    /\ backup \in {NoFile, WithGithub} \cup Unparsable
    /\ config = DefaultDoc
    /\ menu = NoMenu
    /\ ret = UndefV
    /\ last = NoOp
    /\ steps = 0
    /\ pending = <<>>

\* await config.load() by a run of the program
Load(reset) ==
    /\ steps < MaxLoads
    /\ LET r == LoadFile(file, backup, reset)
       IN  /\ file' = r.file
           /\ backup' = r.backup
           /\ ret' = r.doc
           /\ last' = [NoOp EXCEPT !.op = "load", !.ok = reset, !.pre = file, !.bak = backup,
                                   !.exit = r.exit, !.asked = r.asked, !.val = ret,
                                   !.hist = IF last.op = "load" THEN <<last.pre>> ELSE <<>>,
                                   !.stamp = steps + 1]
    /\ steps' = steps + 1
    /\ UNCHANGED <<config, menu>>
    /\ UNCHANGED pending

\* config.save(cfg)
Save(cfg) ==
    /\ steps < MaxLoads
    /\ file' = Stringify(cfg)
    /\ ret' = UndefV
    /\ last' = [NoOp EXCEPT !.op = "save", !.pre = file, !.bak = backup, !.stamp = steps + 1]
    /\ steps' = steps + 1
    /\ UNCHANGED <<config, menu, backup>>
    /\ UNCHANGED pending

LoadNext ==
    \/ \E reset \in BOOLEAN : Load(reset)
    \/ \E cfg \in SaveDocs : Save(cfg)

SpecLoad == LoadInit /\ [][LoadNext]_vars

\* C14: a load that finds no file returns the default document and leaves
\* the file holding exactly that document; the load that follows it returns
\* an equal document.
C14_FirstLoad ==
    (last.op = "load") =>
        /\ last.pre = NoFile =>
              /\ ret = DefaultDoc /\ file = DefaultDoc /\ last.exit = -1
              /\ ret[<<"passcode">>] = JNull /\ Keys(ret, <<"namespaces">>) = {}
        /\ last.hist = <<NoFile>> => (ret = last.val /\ ret = DefaultDoc)

C14_Witness ==
    last.op = "load" /\ last.hist = <<NoFile>> /\ steps = 2 /\ ret = DefaultDoc /\ file = DefaultDoc

\* C15: a load that finds a file that does not parse asks for confirmation;
\* confirmed, the bad file becomes the backup and the default document is
\* written and returned; declined, the process exits with a non-zero code and
\* both files are as before.
C15_ParseFault ==
    (last.op = "load" /\ last.pre \in Unparsable) =>
        /\ last.asked
        /\ IF last.ok
           THEN /\ backup = last.pre /\ file = DefaultDoc /\ ret = DefaultDoc
                /\ last.exit = -1
           ELSE /\ last.exit > 0
                /\ file = last.pre /\ backup = last.bak

C15_Witness ==
    /\ last.op = "load" /\ last.pre \in Unparsable /\ last.ok
    /\ last.bak \in Unparsable /\ last.bak # last.pre /\ backup = last.pre /\ file = DefaultDoc

\* ------------------------------------------------- command line add/remove

\* `let sources = await configUtil.get("sources"); if (!Array.isArray(sources))
\* sources = []` on the file f
SourcesOf(f) ==
    LET v == StoreGet(f, <<"sources">>)
    IN  IF v[<<>>] = ARR THEN ArrayAt(v, <<>>) ELSE <<>>

\* installProvider(argv) of `cpm install provider <module>` on the file f:
\* no test of the name, npm install, then set("sources", ...)
InstallProvider(f, providerName, installOk) ==
    IF providerName \in Range(SourcesOf(f))
    THEN [file |-> f, installed |-> FALSE, outcome |-> "present"]
    ELSE IF ~installOk
    THEN [file |-> f, installed |-> TRUE, outcome |-> "installFailed"]
    ELSE [file |-> Stringify(StoreSet(f, <<"sources">>, ArrayTree(Append(SourcesOf(f), providerName))).doc),
          installed |-> TRUE, outcome |-> "added"]

\* installSource(argv) of `--installsource <name>` on the file f
InstallSource(f, sourceName) ==
    IF sourceName \in Range(SourcesOf(f))
    THEN [file |-> f, installed |-> FALSE, outcome |-> "present"]
    ELSE [file |-> Stringify(StoreSet(f, <<"sources">>, ArrayTree(Append(SourcesOf(f), sourceName))).doc),
          installed |-> FALSE, outcome |-> "added"]

\* InstallUninstallAPI.run(action, subject, argv): the fault it ends with
\* ("none" when it dispatches to a command)
RunInstallUninstall(action, subject) ==
    IF action = "install" /\ subject \in {"provider", "package"}
    THEN "none"
    ELSE "Unknown install/uninstall command"

MaxCommands == 3

\* the names typed on the command line or at the add prompt
CliNames == {CustomX, "bad name", "legacy"}

CliInit ==
    /\ file \in {DefaultDoc, WithGithub}
    /\ config = file
    /\ menu = NoMenu
    /\ ret = UndefV
    /\ last = NoOp
    /\ steps = 0
    /\ backup = NoFile
    /\ pending = <<>>

\* cpm install provider <name>
CliInstallProvider(name, installOk) ==
    /\ steps < MaxCommands
    /\ LET fault == RunInstallUninstall("install", "provider")
           r == InstallProvider(file, name, installOk)
       IN  /\ file' = r.file
           /\ last' = [NoOp EXCEPT !.op = "installProvider", !.arg = name, !.ok = installOk,
                                   !.cb = r.outcome, !.installed = r.installed, !.fault = fault,
                                   !.pre = file, !.stamp = steps + 1]
    /\ steps' = steps + 1
    /\ UNCHANGED <<config, menu, ret, backup>>
    /\ UNCHANGED pending

\* cpm --installsource <name>
CliInstallSource(name) ==
    /\ steps < MaxCommands
    /\ LET r == InstallSource(file, name)
       IN  /\ file' = r.file
           /\ last' = [NoOp EXCEPT !.op = "installSource", !.arg = name, !.cb = r.outcome,
                                   !.pre = file, !.stamp = steps + 1]
    /\ steps' = steps + 1
    /\ UNCHANGED <<config, menu, ret, backup>>
    /\ UNCHANGED pending

\* cpm uninstall provider <name>: run("uninstall", "provider", {provider})
\* is not awaited, its rejection reaches the uncaughtException handler
CliUninstallProvider(name) ==
    /\ steps < MaxCommands
    /\ LET fault == RunInstallUninstall("uninstall", "provider")
       IN  last' = [NoOp EXCEPT !.op = "uninstallProvider", !.arg = name, !.fault = fault,
                               !.exit = IF fault = "none" THEN -1
                                        ELSE UncaughtException([isError |-> TRUE, name |-> "Error",
                                                                forceClosed |-> FALSE]),
                               !.pre = file, !.stamp = steps + 1]
    /\ steps' = steps + 1
    /\ UNCHANGED <<file, config, menu, ret, backup>>
    /\ UNCHANGED pending

\* a run of the config menu that adds name by "Add Custom Provider" and exits
MenuAddCustom(name, installOk) ==
    /\ steps < MaxCommands
    /\ LET r == AddCustom(file, name, installOk)
       IN  /\ file' = IF r.saved THEN Stringify(r.doc) ELSE file
           /\ last' = [NoOp EXCEPT !.op = "addCustom", !.arg = name, !.ok = installOk,
                                   !.cb = r.outcome, !.installed = r.installed,
                                   !.pre = file, !.stamp = steps + 1]
    /\ steps' = steps + 1
    /\ UNCHANGED <<config, menu, ret, backup>>
    /\ UNCHANGED pending

\* a run of the config menu that adds a prebuilt provider and exits
MenuAddPrebuilt(prov) ==
    /\ steps < MaxCommands
    /\ PrebuiltId(prov) \notin Range(ArrayAt(file, <<"providers">>))
    /\ file' = Stringify(Cleanup(PushAndSeed(EnsureProviders(file), PrebuiltId(prov))))
    /\ last' = [NoOp EXCEPT !.op = "addPrebuilt", !.arg = PrebuiltId(prov), !.cb = "added",
                            !.pre = file, !.stamp = steps + 1]
    /\ steps' = steps + 1
    /\ UNCHANGED <<config, menu, ret, backup>>
    /\ UNCHANGED pending

CliNext ==
    \/ \E name \in CliNames, installOk \in BOOLEAN : CliInstallProvider(name, installOk)
    \/ \E name \in CliNames : CliInstallSource(name)
    \/ \E name \in CliNames \cup {BuiltinGithub} : CliUninstallProvider(name)
    \/ \E name \in CliNames, installOk \in BOOLEAN : MenuAddCustom(name, installOk)
    \/ \E prov \in PrebuiltProviders : MenuAddPrebuilt(prov)

SpecCli == CliInit /\ [][CliNext]_vars

\* the identifiers the document lists as providers: the list of the menu and
\* the list the command line commands write
ListedProviders(f) == Range(ArrayAt(f, <<"providers">>)) \cup Range(SourcesOf(f))

\* C22: after any sequence of adds through the menu or the command line,
\* every identifier the document lists as a provider matches the naming
\* pattern.
C22_PatternGatesEveryAdd ==
    \A id \in ListedProviders(file) : MatchesPattern(id)

\* C25: `uninstall provider <module>` ends without an "Unknown
\* install/uninstall command" error and leaves the module out of the
\* document's provider list.
C25_UninstallProviderRemoves ==
    (last.op = "uninstallProvider") =>
        /\ last.fault = "none"
        /\ last.arg \notin ListedProviders(file)

\* ------------------------------------- provider registry and dispatcher

\* the operations of the command table of a loaded module (module.default
\* .command): the built-in packages define all seven, cpm-x stands for a
\* third-party module with install and publish only
CommandTable(id) ==
    IF id = BuiltinGithub
    THEN {"install", "publish", "unpublish", "uninstall", "version", "update", "init"}
    ELSE {"install", "publish"}

\* the operations that raise when called: the built-in ones have empty
\* bodies, install of cpm-x stands for an operation that fails
Throwing(id) == IF id = CustomX THEN {"install"} ELSE {}

Methods == {"install", "publish", "version"}

\* typeof provider.command?.[method] === "function" for an entry
\* {name, module} of the list the registry returns: an entry has no property
\* `command` (the table is module.default.command)
EntryExposes(entry, method) == FALSE

\* the loop of runCommand over an iterable of entries: the invocations made
\* (in order) and the fault that leaves the loop
RECURSIVE Dispatch(_, _)
Dispatch(entries, method) ==
    IF entries = <<>> THEN [calls |-> <<>>, fault |-> "none"]
    ELSE IF ~EntryExposes(Head(entries), method) THEN Dispatch(Tail(entries), method)
    ELSE IF method \in Throwing(Head(entries))
    THEN [calls |-> <<Head(entries)>>, fault |-> Head(entries)]
    ELSE LET rest == Dispatch(Tail(entries), method)
         IN  [calls |-> <<Head(entries)>> \o rest.calls, fault |-> rest.fault]

\* what `getSources()` evaluates to in runCommand: the registry function is
\* async and is called without await (and without a document), so the value
\* is a promise, not the list
GetSourcesUnawaited == Scalar("[object Promise]")

\* runCommand(method, opts): `for (const provider of allProviders)` raises a
\* TypeError when allProviders is not iterable
RunCommandOn(allProviders, method) ==
    IF allProviders[<<>>] # ARR THEN [calls |-> <<>>, fault |-> "TypeError"]
    ELSE Dispatch(ArrayAt(allProviders, <<>>), method)

\* the provider lists of the documents explored: up to MaxProviders distinct
\* identifiers, loadable or not
MaxProviders == 3

ProviderLists ==
    {l \in UNION {[1..n -> Ids] : n \in 0..MaxProviders} :
        \A i, j \in 1..Len(l) : i # j => l[i] # l[j]}

\* documents with a providers list, without one, and with a value that is
\* not an array in its place
RegistryDocs ==
    {Graft(DefaultDoc, <<"providers">>, ArrayTree(l)) : l \in ProviderLists}
    \cup {DefaultDoc, Graft(DefaultDoc, <<"providers">>, Scalar(CustomX))}

RegistryInit ==
    /\ config \in RegistryDocs
    /\ file = config
    /\ menu = NoMenu
    /\ ret = UndefV
    /\ last = NoOp
    /\ steps = 0
    /\ backup = NoFile
    /\ pending = <<>>

\* await configUtil.getProviders(config)
LoadProviders ==
    /\ ret' = ArrayTree(GetProviders(config))
    /\ last' = [NoOp EXCEPT !.op = "getProviders"]
    /\ UNCHANGED <<file, config, menu, steps>>
    /\ UNCHANGED backup
    /\ UNCHANGED pending

\* await runCommand(method, opts) with the document config on disk
RunCommand(method) ==
    /\ LET r == RunCommandOn(GetSourcesUnawaited, method)
       IN  last' = [NoOp EXCEPT !.op = "runCommand", !.method = method,
                               !.calls = r.calls, !.fault = r.fault]
    /\ ret' = UndefV
    /\ UNCHANGED <<file, config, menu, steps>>
    /\ UNCHANGED backup
    /\ UNCHANGED pending

RegistryNext ==
    \/ LoadProviders
    \/ \E method \in Methods : RunCommand(method)

SpecRegistry == RegistryInit /\ [][RegistryNext]_vars

\* the configured providers that load and expose method, in list order
Exposing(method) ==
    Filter(ArrayAt(config, <<"providers">>), {id \in Modules : method \in CommandTable(id)})

\* the position of the first exposing provider whose operation raises (0: none)
FirstThrower(method) ==
    LET e == Exposing(method)
        bad == {i \in 1..Len(e) : method \in Throwing(e[i])}
    IN  IF bad = {} THEN 0 ELSE CHOOSE i \in bad : \A j \in bad : i <= j

\* C12: when an earlier provider's operation raises, the operations of the
\* providers after it are not invoked and the fault that reaches the caller
\* of runCommand is that provider's fault.
C12_DispatchFailFast ==
    (last.op = "runCommand" /\ Len(Exposing(last.method)) >= 2
        /\ FirstThrower(last.method) \in 1..(Len(Exposing(last.method)) - 1)) =>
        /\ last.calls = SubSeq(Exposing(last.method), 1, FirstThrower(last.method))
        /\ last.fault = Exposing(last.method)[FirstThrower(last.method)]

\* C13: runCommand invokes the operation once on each configured provider
\* that exposes it, in the order of the providers list, skipping the others.
C13_DispatchSequencing ==
    (last.op = "runCommand" /\ FirstThrower(last.method) = 0) =>
        /\ last.calls = Exposing(last.method)
        /\ last.fault = "none"

\* C16: resolving the providers of a document does not raise and returns, in
\* the order of the providers list, exactly the entries whose module loads;
\* an entry that fails to load does not hide the entries after it.
C16_LoadFaultsSkipped ==
    (last.op = "getProviders") =>
        LET list == ArrayAt(config, <<"providers">>)
            res == ArrayAt(ret, <<>>)
            loaded == {i \in 1..Len(list) : list[i] \in Modules}
        IN  /\ last.fault = "none"
            /\ Len(res) = Cardinality(loaded)
            /\ \E f \in [1..Len(res) -> loaded] :
                  /\ \A j, k \in 1..Len(res) : j < k => f[j] < f[k]
                  /\ \A j \in 1..Len(res) : res[j] = list[f[j]]

C16_Witness ==
    /\ last.op = "getProviders"
    /\ ArrayAt(config, <<"providers">>) = <<BuiltinGithub, "legacy", CustomX>>
    /\ ArrayAt(ret, <<>>) = <<BuiltinGithub, CustomX>>

\* ------------------------------------------------------- cleanup, run twice

MaxRuns == 2

MapIds == {CustomX, "legacy", "xcpm-y"}

\* a `providers` map: each identifier absent, with an empty settings object or
\* with a token
ProviderMap(f) ==
    [q \in {<<>>} \cup {<<id>> : id \in {i \in MapIds : f[i] # "absent"}}
               \cup {<<id, "token">> : id \in {i \in MapIds : f[i] = "set"}} |->
        IF Len(q) = 2 THEN "tok" ELSE OBJ]

ProviderMaps == {ProviderMap(f) : f \in [MapIds -> {"absent", "empty", "set"}]} \cup {UndefV}

WithMap(t, p, m) == IF m = UndefV THEN t ELSE Graft(t, p, m)

\* documents as a hand-edited or older file can hold them
CleanupDocs ==
    {WithMap(WithMap(Graft(Graft(Graft(DefaultDoc, <<"namespaces", "@foo">>, EmptyObj),
                                 <<"providers">>, ArrayTree(arr)), <<"global", "old">>, old),
                     <<"global", "providers">>, gm),
             <<"namespaces", "@foo", "providers">>, nm) :
        gm \in ProviderMaps, nm \in ProviderMaps,
        arr \in {<<>>, <<"legacy", CustomX>>, <<"xcpm-y">>}, old \in {EmptyObj, Scalar(JTrue)}}

CleanupInit ==
    /\ config \in CleanupDocs
    /\ file = config
    /\ menu = NoMenu
    /\ ret = UndefV
    /\ last = NoOp
    /\ steps = 0
    /\ backup = NoFile
    /\ pending = <<>>

\* ConfigAPI.cleanup(config) is run on the document in memory
RunCleanup ==
    /\ steps < MaxRuns
    /\ config' = Cleanup(config)
    /\ last' = [NoOp EXCEPT !.op = "cleanup", !.pre = config, !.stamp = steps + 1]
    /\ steps' = steps + 1
    /\ UNCHANGED <<file, menu, ret>>
    /\ UNCHANGED backup
    /\ UNCHANGED pending

SpecCleanup == CleanupInit /\ [][RunCleanup]_vars

\* C7: a run of cleanup right after another run changes nothing.
C7_CleanupIdempotent ==
    (last.op = "cleanup" /\ steps >= 2) => config = last.pre

C7_Witness ==
    last.op = "cleanup" /\ steps = 2 /\ config # file /\ ~Has(config, <<"global", "providers">>)

\* no provider settings object of any scope is empty
NoEmptySettings(t) ==
    \A scope \in Scopes(t) : \A k \in ProviderKeys(t, scope) :
        ~NoKeys(t, ScopePath(scope) \o <<"providers", k>>)

\* C17 as stated: after cleanup every identifier of the providers list and
\* every provider key of every scope matches the naming pattern, and no
\* provider settings object is empty.
C17_CleanupPostcondition ==
    (last.op = "cleanup") =>
        /\ \A id \in Range(ArrayAt(config, <<"providers">>)) : MatchesPattern(id)
        /\ \A scope \in Scopes(config) : \A k \in ProviderKeys(config, scope) : MatchesPattern(k)
        /\ NoEmptySettings(config)

\* C17 (amended): after cleanup every identifier of the providers list and
\* every provider key of every scope contains "cpm-", and no provider
\* settings object is empty.
C17_CleanupKeepsCpmNames ==
    (last.op = "cleanup") =>
        /\ \A id \in Range(ArrayAt(config, <<"providers">>)) : IncludesCpm(id)
        /\ \A scope \in Scopes(config) : \A k \in ProviderKeys(config, scope) : IncludesCpm(k)
        /\ NoEmptySettings(config)

C17_Witness ==
    /\ last.op = "cleanup" /\ steps = 1
    /\ ArrayAt(last.pre, <<"providers">>) = <<"legacy", CustomX>>
    /\ ArrayAt(config, <<"providers">>) = <<CustomX>>
    /\ ProviderKeys(last.pre, "global") = {CustomX, "legacy", "xcpm-y"}
    /\ ProviderKeys(config, "global") = {CustomX}

====
